---- MODULE Spec2Model ----
(***************************************************************************)
(* Model of vue-declassify: the rewrite of a class-style Vue component     *)
(* (vue-class-component / vue-property-decorator) into a Vue.extend()      *)
(* object-style component.                                                 *)
(*                                                                         *)
(* A source file is a record                                               *)
(*   imports    : the import declarations, in file order                   *)
(*   statements : the other top-level statements, in file order            *)
(*   formatted  : whether the text is in the style formatText() produces   *)
(* Syntax nodes are records; expression text that the code copies with     *)
(* getText() is a string.                                                  *)
(*                                                                         *)
(* src/src/operations/vue_object.ts is translated operator by operator.    *)
(* vue_class.extract, imports.ensure, the import clean-up and the          *)
(* declassify driver are not part of the available sources: they are       *)
(* modelled from the specification (sections 4.1, 4.2) and the tests.      *)
(* Types are resolved as in the test project (no strict null checks), so   *)
(* the `?` and `!` markers of a field do not change the field's type.      *)
(***************************************************************************)
EXTENDS Integers, Sequences, FiniteSets, TLC

VARIABLES source, before, orig, ops, threw, requests

vars == <<source, before, orig, ops, threw, requests>>

\* ------------------------------------------------------------------ bounds
MaxRuns == 2
MaxFields == 2
MaxClasses == 2
MaxConfig == 2
MaxImports == 2

\* ------------------------------------------------------- syntax tree nodes
Node(key, kind, text, properties, comment) ==
  [key |-> key, kind |-> kind, text |-> text,
   properties |-> properties, comment |-> comment]

PropertyAssignment(key, text) == Node(key, "expression", text, <<>>, "")

ImportDeclaration(module, default, named) ==
  [module |-> module, default |-> default, named |-> named]

JSDoc(comment, fullText) == [comment |-> comment, fullText |-> fullText]

PropertyDeclaration(name, prop, options, typeNode, marker, initializer, docs) ==
  [name |-> name, prop |-> prop, options |-> options, typeNode |-> typeNode,
   marker |-> marker, initializer |-> initializer, docs |-> docs]

ClassDeclaration(decorated, name, properties, members, docs) ==
  [kind |-> "class", decorated |-> decorated, name |-> name,
   properties |-> properties, members |-> members, docs |-> docs]

SourceFile(imports, statements, formatted) ==
  [imports |-> imports, statements |-> statements, formatted |-> formatted]

\* ------------------------------------------------------------ seq helpers
RECURSIVE JoinLines(_)
JoinLines(lines) ==
  IF lines = <<>> THEN ""
  ELSE IF Len(lines) = 1 THEN Head(lines)
  ELSE Head(lines) \o "\n" \o JoinLines(Tail(lines))

RemoveAt(s, i) == [j \in 1..(Len(s) - 1) |-> IF j < i THEN s[j] ELSE s[j + 1]]

Indices(s, Test(_)) == {i \in 1..Len(s) : Test(s[i])}

Min(S) == CHOOSE x \in S : \A y \in S : x <= y

SeqsUpTo(S, n) == UNION {[1..k -> S] : k \in 0..n}

\* --------------------------------------------------------- type resolution
\* PropertyDeclaration.getType(): the declared type when there is a type
\* annotation, the type inferred from the initializer otherwise, `any` when
\* the field has neither.
TypeOfText(text) ==
  CASE text = "string" -> "string"
    [] text = "number" -> "number"
    [] text = "boolean" -> "boolean"
    [] text = "() => Promise<void>" -> "function"
    [] OTHER -> "object"

TypeOfInitializer(text) ==
  CASE text = "0" -> "number"
    [] text = "''" -> "string"
    [] OTHER -> "object"

getType(declaration) ==
  IF declaration.typeNode # "" THEN TypeOfText(declaration.typeNode)
  ELSE IF declaration.initializer # "" THEN TypeOfInitializer(declaration.initializer)
  ELSE "any"

\* ------------------------------------------------------------ imports.ts
\* imports.ensure(source, moduleName, {default, named}): the file's imports
\* include the requested bindings of moduleName afterwards; a binding that is
\* already there is not added again, no other import is touched.  default = ""
\* and named = <<>> stand for an option that was not passed.
ensure(src, moduleName, default, named) ==
  LET found == Indices(src.imports, LAMBDA d : d.module = moduleName)
  IN IF found = {}
     THEN [src EXCEPT !.imports = Append(@, ImportDeclaration(moduleName, default, named))]
     ELSE LET i == Min(found)
              decl == src.imports[i]
              Missing(n) == \A k \in 1..Len(decl.named) : decl.named[k] # n
          IN [src EXCEPT !.imports[i] =
                ImportDeclaration(moduleName,
                                  IF decl.default = "" THEN default ELSE decl.default,
                                  decl.named \o SelectSeq(named, Missing))]

ClassComponentModules == {"vue-class-component", "vue-property-decorator"}

collapseImports_keepPropertyDecorator(src) ==
  LET Kept(d) == d.module # "vue-class-component"
  IN ensure([src EXCEPT !.imports = SelectSeq(@, Kept)], "vue", "Vue", <<>>)

\* The companion operation of section 4.1: every import of a decorator module
\* is removed and a default import of 'vue' is guaranteed.
collapseImports(src) ==
  LET Kept(d) == d.module \notin ClassComponentModules
  IN ensure([src EXCEPT !.imports = SelectSeq(@, Kept)], "vue", "Vue", <<>>)

\* ---------------------------------------------------------- vue_class.ts
\* vue_class.extract(source): the first class that carries @Component, the
\* properties of the decorator's object literal (none for a bare decorator),
\* the @Prop fields with the `default` and `required` assignments of their
\* decorator call, and the undecorated fields that have an initializer.
\* An optional assignment is a sequence of length 0 or 1.
IsComponent(statement) == statement.kind = "class" /\ statement.decorated

OptionNamed(declaration, key) ==
  LET Is(p) == p.key = key
      all == SelectSeq(declaration.options, Is)
  IN IF all = <<>> THEN <<>> ELSE <<Head(all)>>

extract(src) ==
  LET found == Indices(src.statements, IsComponent)
  IN IF found = {} THEN [found |-> FALSE]
     ELSE LET i == Min(found)
              declaration == src.statements[i]
              IsProp(m) == m.prop
              IsData(m) == ~m.prop /\ m.initializer # ""
              AsProp(m) == [declaration |-> m,
                            default |-> OptionNamed(m, "default"),
                            required |-> OptionNamed(m, "required")]
              fields == SelectSeq(declaration.members, IsProp)
          IN [found |-> TRUE,
              index |-> i,
              declaration |-> declaration,
              decorator |-> [properties |-> declaration.properties],
              props |-> [k \in 1..Len(fields) |-> AsProp(fields[k])],
              data |-> SelectSeq(declaration.members, IsData)]

\* ----------------------------------------------------------- vue_object.ts
\* A step that can mutate the file and can throw returns the file as it left
\* it, whether it threw, the mutation requests it made, and its value.
Result(src, didThrow, reqs, value) ==
  [source |-> src, threw |-> didThrow, requests |-> reqs, value |-> value]

NoNode == Node("", "none", "", <<>>, "")

\* Sequencing of two steps: a throw of the first ends the function, otherwise
\* the second runs on what the first returned and the requests add up.
Prepend(reqs, result) == [result EXCEPT !.requests = reqs \o @]

Then(first, Second(_)) ==
  IF first.threw THEN first ELSE Prepend(first.requests, Second(first))

createDocumentation(target, docs) ==
  IF Len(docs) > 0 /\ docs[1].comment # <<>>
  THEN [target EXCEPT !.comment =
          "*\n"
          \o JoinLines([i \in 1..Len(docs[1].comment) |-> " * " \o docs[1].comment[i]])
          \o "\n "]
  ELSE target

classNameToPropName(src, vue) ==
  Node("name", "string", vue.declaration.name, <<>>, "")

classPropTypeToObjectPropType_noEnsure(src, prop) ==
  LET type == getType(prop.declaration)
      Type(text) == Node("type", "identifier", text, <<>>, "")
  IN IF type = "string" THEN Result(src, FALSE, <<>>, Type("String"))
     ELSE IF type = "number" THEN Result(src, FALSE, <<>>, Type("Number"))
     ELSE IF type = "boolean" THEN Result(src, FALSE, <<>>, Type("Boolean"))
     ELSE IF prop.declaration.typeNode = "" THEN Result(src, TRUE, <<>>, NoNode)
     ELSE Result(src, FALSE, <<>>,
                 Type("Object as PropType<" \o prop.declaration.typeNode \o ">"))

\* The else branch first asks for the PropType import and then reads the type
\* annotation with getTypeNodeOrThrow(), which throws when the field has none.
classPropTypeToObjectPropType(src, prop) ==
  LET type == getType(prop.declaration)
      Type(text) == Node("type", "identifier", text, <<>>, "")
  IN IF type = "string" THEN Result(src, FALSE, <<>>, Type("String"))
     ELSE IF type = "number" THEN Result(src, FALSE, <<>>, Type("Number"))
     ELSE IF type = "boolean" THEN Result(src, FALSE, <<>>, Type("Boolean"))
     ELSE LET ensured == ensure(src, "vue", "", <<"PropType">>)
              reqs == <<"ensure vue PropType">>
          IN IF prop.declaration.typeNode = ""
             THEN Result(ensured, TRUE, reqs, NoNode)
             ELSE Result(ensured, FALSE, reqs,
                         Type("Object as PropType<" \o prop.declaration.typeNode \o ">"))

classPropOptionsToObjectPropOptions_keepBoth(src, prop) ==
  IF prop.default # <<>>
  THEN <<Node("default", "identifier", prop.default[1].text, <<>>, "")>> \o prop.required
  ELSE IF prop.required # <<>>
  THEN <<prop.required[1]>>
  ELSE <<Node("required", "false", "false", <<>>, "")>>

classPropOptionsToObjectPropOptions(src, prop) ==
  IF prop.default # <<>>
  THEN <<Node("default", "identifier", prop.default[1].text, <<>>, "")>>
  ELSE IF prop.required # <<>>
  THEN <<prop.required[1]>>
  ELSE <<Node("required", "false", "false", <<>>, "")>>

classPropToObjectProp(src, prop) ==
  Then(classPropTypeToObjectPropType(src, prop), LAMBDA type :
    Result(type.source, FALSE, <<>>,
           createDocumentation(
             Node(prop.declaration.name, "object", "",
                  <<type.value>> \o classPropOptionsToObjectPropOptions(type.source, prop),
                  ""),
             prop.declaration.docs)))

\* vue.props.map(...): the fields are converted in order, each on the file as
\* the previous one left it; a throw ends the conversion.
RECURSIVE mapProps(_, _)
mapProps(src, props) ==
  IF props = <<>> THEN Result(src, FALSE, <<>>, <<>>)
  ELSE Then(classPropToObjectProp(src, Head(props)), LAMBDA first :
         Then(mapProps(first.source, Tail(props)), LAMBDA rest :
           Result(rest.source, FALSE, <<>>, <<first.value>> \o rest.value)))

classPropsToObjectProps(src, vue) ==
  Then(mapProps(src, vue.props), LAMBDA mapped :
    Result(mapped.source, FALSE, <<>>, Node("props", "object", "", mapped.value, "")))

dataInitializer_dropType(declaration) ==
  declaration.initializer

\* Lines 170-179: the initializer text, followed by ` as <type>` when the
\* field has a type annotation.
dataInitializer(declaration) ==
  IF declaration.typeNode # ""
  THEN declaration.initializer \o " as " \o declaration.typeNode
  ELSE declaration.initializer

classDataToObjectData(src, vue) ==
  LET Property(declaration) ==
        createDocumentation(
          Node(declaration.name, "identifier", dataInitializer(declaration), <<>>, ""),
          declaration.docs)
      properties == [i \in 1..Len(vue.data) |-> Property(vue.data[i])]
  IN [key |-> "data", kind |-> "method", text |-> "", properties |-> <<>>, comment |-> "",
      parameters |-> <<>>,
      body |-> <<[kind |-> "return",
                  expression |-> Node("", "object", "", properties, "")]>>]

componentProperties_configFirst(name, decoratorProperties, props, data) ==
  decoratorProperties \o <<name>> \o props \o data

\* Lines 222-235: the entries pushed onto `properties`, in push order.  props
\* and data are sequences of length 0 or 1.
componentProperties(name, decoratorProperties, props, data) ==
  <<name>> \o decoratorProperties \o props \o data

\* Lines 222-242: the Vue.extend(...) call.  getNameOrThrow() throws for a
\* class without a name, before anything is changed.
assemble(src, vue) ==
  IF vue.declaration.name = "" THEN Result(src, TRUE, <<>>, NoNode)
  ELSE Then(IF Len(vue.props) > 0
            THEN Then(classPropsToObjectProps(src, vue), LAMBDA entry :
                   Result(entry.source, FALSE, <<>>, <<entry.value>>))
            ELSE Result(src, FALSE, <<>>, <<>>),
            LAMBDA props :
              Result(props.source, FALSE, <<>>,
                [kind |-> "call",
                 expression |-> "Vue.extend",
                 arguments |-> <<Node("", "object", "",
                    componentProperties(
                      classNameToPropName(src, vue),
                      vue.decorator.properties,
                      props.value,
                      IF Len(vue.data) > 0
                      THEN <<classDataToObjectData(props.source, vue)>> ELSE <<>>),
                    "")>>]))

formatText(src) == [src EXCEPT !.formatted = TRUE]

ExportAssignment(expression, leadingTrivia) ==
  [kind |-> "export", isExportEquals |-> FALSE,
   expression |-> expression, leadingTrivia |-> leadingTrivia]

replace_keepClass(src, vue, component) ==
  LET documentation == IF Len(vue.declaration.docs) > 0
                       THEN vue.declaration.docs[1].fullText ELSE ""
      added == [src EXCEPT !.statements =
                  Append(@, ExportAssignment(component, documentation))]
  IN Result(formatText(added), FALSE,
            <<"remove", "addExportAssignment", "formatText">>, NoNode)

\* Lines 244-265: the class documentation is saved, the class is removed, the
\* default export is added after the last statement and the file is formatted.
replace(src, vue, component) ==
  LET documentation == IF Len(vue.declaration.docs) > 0
                       THEN vue.declaration.docs[1].fullText ELSE ""
      removed == [src EXCEPT !.statements = RemoveAt(@, vue.index)]
      added == [removed EXCEPT !.statements =
                  Append(@, ExportAssignment(component, documentation))]
  IN Result(formatText(added), FALSE,
            <<"remove", "addExportAssignment", "formatText">>, NoNode)

classToObject_alwaysFormat(src) ==
  LET vue == extract(src)
  IN IF ~vue.found THEN Result(formatText(src), FALSE, <<"formatText">>, NoNode)
     ELSE Then(assemble(src, vue), LAMBDA component :
            replace(component.source, vue, component.value))

classToObject(src) ==
  LET vue == extract(src)
  IN IF ~vue.found THEN Result(src, FALSE, <<>>, NoNode)
     ELSE Then(assemble(src, vue), LAMBDA component :
            replace(component.source, vue, component.value))

\* ---------------------------------------------------------------- index.ts
\* declassify(file), the entry point the tests call: the imports are cleaned
\* up, then the component is converted.
declassify(src) ==
  Prepend(<<"collapseImports">>, classToObject(collapseImports(src)))

\* ------------------------------------------------------------ input files
NoDocs == <<>>

SomeDocs ==
  <<JSDoc(<<"The count.", "Starts at zero.">>, "/**\n * The count.\n * Starts at zero.\n */")>>

EmptyDocs == <<JSDoc(<<>>, "/** */")>>

Prop(options, typeNode, marker, docs) ==
  PropertyDeclaration("", TRUE, options, typeNode, marker, "", docs)

Data(typeNode, initializer, docs) ==
  PropertyDeclaration("", FALSE, <<>>, typeNode, "", initializer, docs)

OptionSamples ==
  { <<>>,
    <<PropertyAssignment("default", "() => noop")>>,
    <<PropertyAssignment("required", "true")>>,
    <<PropertyAssignment("required", "true"), PropertyAssignment("default", "0")>> }

FieldSamples ==
  {Prop(o, t, "!", NoDocs) : o \in OptionSamples, t \in {"string", "Response"}}
  \cup {Prop(<<>>, t, "!", NoDocs) : t \in {"number", "boolean", "() => Promise<void>", ""}}
  \cup {Prop(<<>>, t, "?", NoDocs) : t \in {"string", "Response"}}
  \cup {Prop(<<>>, "number", "!", SomeDocs),
        PropertyDeclaration("", TRUE, <<>>, "", "", "0", NoDocs),
        Data("", "0", NoDocs),
        Data("number", "0", EmptyDocs),
        Data("string[]", "[]", SomeDocs),
        PropertyDeclaration("", FALSE, <<>>, "string", "!", "", NoDocs)}

\* The fields of a class have distinct names: the i-th is named f<i>.
Named(members) ==
  [i \in 1..Len(members) |-> [members[i] EXCEPT !.name = "f" \o ToString(i)]]

MemberSamples ==
  { <<>>,
    Named(<<Prop(<<>>, "Response", "!", NoDocs)>>),
    Named(<<Data("number", "0", NoDocs)>>),
    Named(<<Data("", "''", NoDocs), Prop(<<>>, "string", "?", SomeDocs), Data("number", "0", NoDocs)>>) }

ConfigSamples ==
  { PropertyAssignment("components", "{ OtherComponent }"),
    PropertyAssignment("name", "'Custom'"),
    PropertyAssignment("props", "{}"),
    PropertyAssignment("data", "() => ({})") }

ClassSamples ==
  { ClassDeclaration(TRUE, "Widget", <<>>, <<>>, NoDocs),
    ClassDeclaration(TRUE, "Gadget", <<>>,
                     Named(<<Prop(<<>>, "Response", "!", NoDocs)>>), SomeDocs),
    ClassDeclaration(TRUE, "Loose", <<>>,
                     Named(<<Prop(<<>>, "", "", NoDocs)>>), NoDocs),
    ClassDeclaration(FALSE, "Helper", <<>>,
                     Named(<<Data("number", "0", NoDocs)>>), NoDocs) }

ImportSamples ==
  { ImportDeclaration("vue", "Vue", <<>>),
    ImportDeclaration("vue", "VueBase", <<>>),
    ImportDeclaration("vue", "", <<"PropType">>),
    ImportDeclaration("vue", "Vue", <<"PropType">>),
    ImportDeclaration("vue-class-component", "", <<"Component", "Vue">>),
    ImportDeclaration("vue-property-decorator", "", <<"Component", "Prop", "Vue">>),
    ImportDeclaration("./other", "OtherComponent", <<>>) }

\* Sequences without two elements that agree on Key: a file has one import
\* declaration per module, one class per name, an object literal one entry
\* per key.
DistinctBy(s, Key(_)) == \A i, j \in 1..Len(s) : i # j => Key(s[i]) # Key(s[j])

ImportLists ==
  {s \in SeqsUpTo(ImportSamples, MaxImports) : DistinctBy(s, LAMBDA d : d.module)}

ClassLists ==
  {s \in SeqsUpTo(ClassSamples, MaxClasses) : DistinctBy(s, LAMBDA c : c.name)}

ConfigLists ==
  {s \in SeqsUpTo(ConfigSamples, MaxConfig) : DistinctBy(s, LAMBDA p : p.key)}

\* Files that vary in their imports and classes.
FileInputs ==
  {SourceFile(i, c, f) : i \in ImportLists, c \in ClassLists, f \in BOOLEAN}

\* Files with one component that varies in its name, decorator and docs.
ClassInputs ==
  {SourceFile(<<>>, <<ClassDeclaration(TRUE, n, p, m, d)>>, FALSE) :
     n \in {"", "Widget"}, p \in ConfigLists, m \in MemberSamples,
     d \in {NoDocs, SomeDocs}}

\* Files with one component that varies in its fields.
FieldInputs ==
  {SourceFile(i, <<ClassDeclaration(TRUE, "Widget", <<>>, Named(m), NoDocs)>>, FALSE) :
     i \in {<<>>, <<ImportDeclaration("vue", "Vue", <<"PropType">>)>>},
     m \in SeqsUpTo(FieldSamples, MaxFields)}

\* ---------------------------------------------------------- state machine
Init ==
  /\ source \in FileInputs \cup ClassInputs \cup FieldInputs
  /\ before = source
  /\ orig = source
  /\ ops = <<>>
  /\ threw = FALSE
  /\ requests = <<>>

\* One call of classToObject(source) on the current file.
ClassToObject ==
  /\ Len(ops) < MaxRuns
  /\ \E done \in {classToObject(source)} :
        /\ source' = done.source
        /\ threw' = done.threw
        /\ requests' = done.requests
  /\ before' = source
  /\ ops' = Append(ops, "classToObject")
  /\ UNCHANGED orig

\* One call of declassify(source) on the current file.
Declassify ==
  /\ Len(ops) < MaxRuns
  /\ \E done \in {declassify(source)} :
        /\ source' = done.source
        /\ threw' = done.threw
        /\ requests' = done.requests
  /\ before' = source
  /\ ops' = Append(ops, "declassify")
  /\ UNCHANGED orig

Next == ClassToObject \/ Declassify

Spec == Init /\ [][Next]_vars

\* ------------------------------------------------------------ properties
Ran == ops # <<>>

LastOp == ops[Len(ops)]

\* The component the last run worked on and its fields, read from the file as
\* it was before the run.
HadComponent == Indices(before.statements, IsComponent) # {}

Component == before.statements[Min(Indices(before.statements, IsComponent))]

InputFields == SelectSeq(Component.members, LAMBDA m : m.prop)

StateFields == SelectSeq(Component.members, LAMBDA m : ~m.prop /\ m.initializer # "")

Config == Component.properties

\* The last run replaced the component by a default export.
Converted == Ran /\ HadComponent /\ ~threw

Export == source.statements[Len(source.statements)]

Entries == Export.expression.arguments[1].properties

PropsEntry == Entries[Len(Config) + 2]

DataEntry == Entries[Len(Entries)]

Supplies(declaration, key) ==
  \E k \in 1..Len(declaration.options) : declaration.options[k].key = key

OptionText(declaration, key) ==
  declaration.options[Min({k \in 1..Len(declaration.options) :
                             declaration.options[k].key = key})].text

HasEntry(node, key, text) ==
  \E k \in 1..Len(node.properties) :
    node.properties[k].key = key /\ node.properties[k].text = text

KeyCount(node, keys) ==
  Cardinality({k \in 1..Len(node.properties) : node.properties[k].key \in keys})

IsPrimitive(declaration) == getType(declaration) \in {"string", "number", "boolean"}

DecoratedCount(file) == Cardinality(Indices(file.statements, IsComponent))

DefaultImportCount(file, module) ==
  Cardinality({i \in 1..Len(file.imports) :
                 file.imports[i].module = module /\ file.imports[i].default # ""})

NamedImportCount(file, module, name) ==
  Cardinality({ij \in (1..Len(file.imports)) \X (1..3) :
                 /\ file.imports[ij[1]].module = module
                 /\ ij[2] <= Len(file.imports[ij[1]].named)
                 /\ file.imports[ij[1]].named[ij[2]] = name})

RequestIndices(name) == {k \in 1..Len(requests) : requests[k] = name}

SameTwice == Len(ops) >= 2 /\ ops[Len(ops)] = ops[Len(ops) - 1]

\* C1: when the file has no decorated component class, classToObject returns
\* without throwing, makes no mutation request (no remove, no export, no
\* import edit, no formatText) and leaves the file exactly as it was.
C1_NoComponentNoChange ==
  (Ran /\ LastOp = "classToObject" /\ ~HadComponent)
    => (source = before /\ ~threw /\ requests = <<>>)

C1_Witness ==
  /\ Ran /\ LastOp = "classToObject" /\ ~HadComponent
  /\ before.statements # <<>> /\ before.imports # <<>> /\ ~before.formatted

C4_TypeTagTotality ==
  (Ran /\ HadComponent /\ Component.name # "") =>
    /\ ~threw
    /\ \A i \in 1..Len(InputFields) :
         LET field == InputFields[i]
             out == PropsEntry.properties[i]
             type == getType(field)
         IN /\ KeyCount(out, {"type"}) = 1
            /\ out.properties[1].key = "type"
            /\ out.properties[1].text =
                 (CASE type = "string" -> "String"
                    [] type = "number" -> "Number"
                    [] type = "boolean" -> "Boolean"
                    [] OTHER -> "Object as PropType<" \o field.typeNode \o ">")

\* C5: the object passed to Vue.extend has, in this order, the `name` entry
\* (the class name as a string literal), every decorator-config entry
\* unchanged and in its order, a `props` entry iff there is an input field,
\* a `data` method iff there is a state field; a config entry named `name`,
\* `props` or `data` is kept next to the synthesized one.
C5_EntryOrder ==
  Converted =>
    /\ Export.kind = "export"
    /\ Export.expression.expression = "Vue.extend"
    /\ Len(Export.expression.arguments) = 1
    /\ Len(Entries) = 1 + Len(Config)
                      + (IF InputFields # <<>> THEN 1 ELSE 0)
                      + (IF StateFields # <<>> THEN 1 ELSE 0)
    /\ Entries[1].key = "name" /\ Entries[1].kind = "string"
    /\ Entries[1].text = Component.name
    /\ \A k \in 1..Len(Config) : Entries[1 + k] = Config[k]
    /\ (InputFields # <<>>) =>
         (PropsEntry.key = "props" /\ PropsEntry.kind = "object"
          /\ Len(PropsEntry.properties) = Len(InputFields))
    /\ (StateFields # <<>>) =>
         (DataEntry.key = "data" /\ DataEntry.kind = "method")

C5_Witness ==
  /\ Converted
  /\ Len(Config) = 2 /\ Config[1].key = "components" /\ Config[2].key = "name"
  /\ InputFields # <<>> /\ StateFields # <<>>
  /\ KeyCount(Export.expression.arguments[1], {"name"}) = 2
  /\ Len(Entries) = 5

\* C6: after declassify the file has exactly one default import of 'vue' and
\* no import of 'vue-class-component' or 'vue-property-decorator'; a default
\* import of 'vue' that the input already had is kept under its name.
C6_SingleDefaultImport ==
  (Ran /\ LastOp = "declassify") =>
    /\ DefaultImportCount(source, "vue") = 1
    /\ \A i \in 1..Len(source.imports) :
         source.imports[i].module \notin ClassComponentModules
    /\ \A i \in 1..Len(before.imports) :
         (before.imports[i].module = "vue" /\ before.imports[i].default # "") =>
           \E j \in 1..Len(source.imports) :
             /\ source.imports[j].module = "vue"
             /\ source.imports[j].default = before.imports[i].default

C6_Witness ==
  /\ Ran /\ LastOp = "declassify"
  /\ Len(before.imports) = 2
  /\ \A i \in 1..2 : before.imports[i].module \in ClassComponentModules
  /\ source.imports = <<ImportDeclaration("vue", "Vue", <<>>)>>

\* C7: the generated `data` method has no parameters and a body of one return
\* of an object literal with one entry per state field, in declaration order,
\* keyed by the field name; the value is the initializer text, followed by
\* ` as <type>` iff the field had a type annotation.
C7_DataMethod ==
  (Converted /\ StateFields # <<>>) =>
    /\ DataEntry.key = "data" /\ DataEntry.kind = "method"
    /\ DataEntry.parameters = <<>>
    /\ Len(DataEntry.body) = 1
    /\ DataEntry.body[1].kind = "return"
    /\ DataEntry.body[1].expression.kind = "object"
    /\ LET out == DataEntry.body[1].expression.properties
       IN /\ Len(out) = Len(StateFields)
          /\ \A i \in 1..Len(StateFields) :
               /\ out[i].key = StateFields[i].name
               /\ out[i].text =
                    (IF StateFields[i].typeNode = ""
                     THEN StateFields[i].initializer
                     ELSE StateFields[i].initializer \o " as " \o StateFields[i].typeNode)

C7_Witness ==
  /\ Converted /\ Len(StateFields) = 2
  /\ StateFields[1].typeNode = "string[]" /\ StateFields[2].typeNode = ""
  /\ DataEntry.body[1].expression.properties[1].text = "[] as string[]"
  /\ DataEntry.body[1].expression.properties[2].text = "0"

\* C8: when some input field gets the generic-cast type tag, the converted
\* file imports PropType from 'vue' exactly once and every request for it
\* comes before the class is removed and the export is added; when every
\* input field has a primitive type, no request for PropType is made.
C8_PropTypeImport ==
  (Ran /\ HadComponent) =>
    /\ (~threw /\ \E i \in 1..Len(InputFields) : ~IsPrimitive(InputFields[i])) =>
         /\ NamedImportCount(source, "vue", "PropType") = 1
         /\ RequestIndices("ensure vue PropType") # {}
         /\ \A e \in RequestIndices("ensure vue PropType") :
              \A r \in RequestIndices("remove") \cup RequestIndices("addExportAssignment") :
                e < r
    /\ (\A i \in 1..Len(InputFields) : IsPrimitive(InputFields[i])) =>
         RequestIndices("ensure vue PropType") = {}

C8_Witness ==
  /\ Converted /\ LastOp = "classToObject" /\ before.imports = <<>>
  /\ Len(InputFields) = 2
  /\ \A i \in 1..2 : ~IsPrimitive(InputFields[i])
  /\ source.imports = <<ImportDeclaration("vue", "", <<"PropType">>)>>

\* C9 (as stated): an input field with a function type gets the type tag
\* `Function as PropType<T>`, any other non-primitive input field gets
\* `Object as PropType<T>`.
C9_FunctionTypeTag ==
  Converted =>
    \A i \in 1..Len(InputFields) :
      LET field == InputFields[i]
          out == PropsEntry.properties[i]
      IN /\ getType(field) = "function" =>
              out.properties[1].text = "Function as PropType<" \o field.typeNode \o ">"
         /\ getType(field) = "object" =>
              out.properties[1].text = "Object as PropType<" \o field.typeNode \o ">"

\* C10 (as stated): an input field whose @Prop call supplies neither `default`
\* nor `required` gets `required: false` when it is declared optional (`?`)
\* and `required: true` when it is declared with `!`.
C10_MarkerRequiredness ==
  Converted =>
    \A i \in 1..Len(InputFields) :
      LET field == InputFields[i]
          out == PropsEntry.properties[i]
      IN (~Supplies(field, "default") /\ ~Supplies(field, "required")) =>
           /\ field.marker = "?" => HasEntry(out, "required", "false")
           /\ field.marker = "!" => HasEntry(out, "required", "true")

====
